---- MODULE Spec2Model ----
(***************************************************************************)
(* Model of the sensor panel of pihacks: the trace fifo, the threshold     *)
(* lights, the Notifier and the update cycle / panel loop of               *)
(* src/python/sensor_panel.py and src/python/ultrametrics_rpi.py, with the *)
(* loading of the configuration before the loop and the KeyboardInterrupt  *)
(* handler after it.                                                       *)
(*                                                                         *)
(* Readings and thresholds are naturals; Python's None is the value None.  *)
(* A threshold multiplier is kept in tenths (12 stands for 1.2), so that   *)
(* multiplier * baseline is exact here where Python rounds a float.        *)
(* In the alert loop of src/python/aq_hat.py a voltage is kept in halves   *)
(* of v_baseline, and so are the three factors (3 stands for 1.5).         *)
(***************************************************************************)
EXTENDS Integers, Sequences, FiniteSets, TLC

VARIABLES
    \* --- one Notifier driven by test_threshold calls
    nt,       \* the Notifier: t1, t2, t3, triggered, notify, buzz
    nbuzz,    \* TRUE while the Notifier's buzzer sounds
    nsent,    \* the send_message calls made so far: [kind, ok]
    npc,      \* "ready", or "raised" once send_message raised out of the call
    ncall,    \* the last test_threshold call: [v, pre, buzz, msgs]
    \* --- one trace list driven by sense_fifo calls
    fw,       \* the width given to sense_fifo
    fifo,     \* the list
    pushed,   \* the non-None values given to sense_fifo so far
    flast,    \* the last sense_fifo call: [called, v, before]
    \* --- the threshold lights, one call
    cl,       \* [v, w, t1, t2, called, leds, leds2, pwm, dht]
    \* --- the panel: main() looping over update()
    cfg,      \* per sensor, the descriptor (sconfig and Sensor)
    pc,       \* "start" before the sensors are loaded, "run" in main(),
              \* "exited" after sys.exit(1), "failed" once an exception left
              \* the loading, "crashed" once one left main(), "stopped"
              \* after the KeyboardInterrupt handler
    held,     \* the resources not released: of "lcd", "leds", "buzzer", "log"
    idx,      \* the sensor main() is at
    rep,      \* iterations done by the current update() call
    passes,   \* complete passes of main()'s for loop
    traces,   \* main()'s traces list
    triggered,\* per sensor, its Notifier's triggered flag
    leds,     \* the status lights that are lit
    buzzer,   \* TRUE while the panel's buzzer sounds
    vcur,     \* update()'s local v; Unbound before the first iteration
    lcd,      \* the last lcd.display call
    tk,       \* what the last iteration did
    cyc,      \* what the end of the last update() call did
    pushes,   \* per sensor, the values appended to its trace so far
    hot,      \* per sensor, TRUE iff the last value its Notifier tested was >= t2
    iso,      \* TRUE while every read of sensor 1 raised and every other read gave a value
    \* --- the alert loop of aq_hat.py
    aq,       \* [pc, i, trigger_level, values, leds, buzzer]
    aqo       \* what the loop did so far: [n, prev, cur, sent, total, calm]

nvars == <<nt, nbuzz, nsent, npc, ncall>>
fvars == <<fw, fifo, pushed, flast>>
cvars == <<cl>>
avars == <<aq, aqo>>
pvars == <<cfg, pc, held, idx, rep, passes, traces, triggered, leds, buzzer, vcur,
           lcd, tk, cyc, pushes, hot, iso>>
vars == <<nt, nbuzz, nsent, npc, ncall, fw, fifo, pushed, flast, cl,
          cfg, pc, held, idx, rep, passes, traces, triggered, leds, buzzer,
          vcur, lcd, tk, cyc, pushes, hot, iso, aq, aqo>>

None == 0 - 1

\* ------------------------------------------------------------------ bounds
MaxThr == 3        \* thresholds of the lone Notifier are drawn from 1..MaxThr
MaxNotes == 4      \* send_message calls followed in the lone Notifier
MaxWidth == 2      \* widths of the lone trace list are drawn from 1..MaxWidth
MaxPushes == 4     \* non-None pushes followed in the lone trace list
MaxFVal == 2       \* values pushed are drawn from 0..MaxFVal
MaxCVal == 5       \* classifier values and thresholds are drawn from 0..MaxCVal
PanelWidth == 1    \* the width main() is given (--width)
MaxPasses == 2     \* passes of main()'s while loop that are followed
MaxAqV == 7        \* aq_hat voltages are drawn from 0..MaxAqV
AqWidth == 1       \* the width aq_hat is given (--width)
MaxAqSteps == 3    \* iterations of aq_hat's while loop that are followed

\* ------------------------------------------------------------- sense_fifo
sense_fifo_any(w, v, l) ==
    Append(IF Len(l) > w THEN Tail(l) ELSE l, v)

sense_fifo(w, v, l) ==
    IF v # None
    THEN Append(IF Len(l) > w THEN Tail(l) ELSE l, v)
    ELSE l

\* -------------------------------------------------------- light_threshold
\* The colours a call sets HIGH (StatusLeds), gives a duty cycle
\* (StatusLedsPwm) or sets HIGH (lcd_leds_dht.update_leds).
light_threshold_low(v, t1, t2) ==
    IF v <= t1 THEN {"green"}
    ELSE IF v >= t1 /\ v < t2 THEN {"yellow"}
    ELSE IF v >= t2 THEN {"red"}
    ELSE {}

light_threshold_swapped(v, t1, t2) ==
    IF v < t1 THEN {"green"}
    ELSE IF v >= t1 /\ v < t2 THEN {"red"}
    ELSE IF v >= t2 THEN {"yellow"}
    ELSE {}

light_threshold(v, t1, t2) ==
    IF v < t1 THEN {"green"}
    ELSE IF v >= t1 /\ v < t2 THEN {"yellow"}
    ELSE IF v >= t2 THEN {"red"}
    ELSE {}

light_threshold_pwm(v, t1, t2) ==
    IF v < t1 THEN {"green"}
    ELSE IF v >= t1 /\ v < t2 THEN {"yellow"}
    ELSE IF v >= t2 THEN {"red"}
    ELSE {}

update_leds(v, t1, t2) ==
    IF v < t1 THEN {"green"}
    ELSE IF v >= t1 /\ v < t2 THEN {"yellow"}
    ELSE IF v >= t2 THEN {"red"}
    ELSE {}

\* StatusLeds.clear_all and StatusLeds.light, on the set of lit colours.
clear_all_none(ls) == ls

clear_all(ls) == {}

light(ls, color) == ls \cup {color}

\* --------------------------------------------------------- test_threshold
\* self: the Notifier; v: the value; buzzing: the buzzer's state before the
\* call; okAlarm, okClear: whether send_message returns (TRUE) or raises
\* for the alarm and for the clearing message.  The result holds the
\* Notifier's triggered flag and the buzzer after the call, the
\* send_message calls made, and whether an exception left the call.
Branch(self, v) ==
    IF v < self.t1 THEN 1
    ELSE IF v >= self.t1 /\ v < self.t2 THEN 2
    ELSE IF v >= self.t2 /\ v < self.t3 THEN 3
    ELSE IF v >= self.t3 THEN 4
    ELSE 0

test_threshold_nolatch(self, v, buzzing, okAlarm, okClear) ==
    LET b == Branch(self, v)
        buzz1 == IF self.buzz
                 THEN (IF b \in {1, 2} THEN FALSE
                       ELSE IF b \in {3, 4} THEN TRUE ELSE buzzing)
                 ELSE buzzing
        alarm == b = 4 /\ self.notify
        raised1 == alarm /\ ~okAlarm
        trig1 == IF alarm /\ okAlarm THEN TRUE ELSE self.triggered
        clear == ~raised1 /\ v < self.t2 /\ self.notify /\ trig1
        raised2 == clear /\ ~okClear
        trig2 == IF clear /\ okClear THEN FALSE ELSE trig1
    IN  [triggered |-> trig2,
         buzzing |-> buzz1,
         msgs |-> (IF alarm THEN <<[kind |-> "alarm", ok |-> okAlarm]>> ELSE <<>>)
                  \o (IF clear THEN <<[kind |-> "cleared", ok |-> okClear]>> ELSE <<>>),
         raised |-> raised1 \/ raised2]

test_threshold_prealarm(self, v, buzzing, okAlarm, okClear) ==
    LET b == Branch(self, v)
        buzz1 == IF self.buzz
                 THEN (IF b \in {1, 2} THEN FALSE
                       ELSE IF b \in {3, 4} THEN TRUE ELSE buzzing)
                 ELSE buzzing
        alarm == b \in {3, 4} /\ self.notify /\ ~self.triggered
        raised1 == alarm /\ ~okAlarm
        trig1 == IF alarm /\ okAlarm THEN TRUE ELSE self.triggered
        clear == ~raised1 /\ v < self.t2 /\ self.notify /\ trig1
        raised2 == clear /\ ~okClear
        trig2 == IF clear /\ okClear THEN FALSE ELSE trig1
    IN  [triggered |-> trig2,
         buzzing |-> buzz1,
         msgs |-> (IF alarm THEN <<[kind |-> "alarm", ok |-> okAlarm]>> ELSE <<>>)
                  \o (IF clear THEN <<[kind |-> "cleared", ok |-> okClear]>> ELSE <<>>),
         raised |-> raised1 \/ raised2]

test_threshold_quiet(self, v, buzzing, okAlarm, okClear) ==
    LET b == Branch(self, v)
        buzz1 == IF self.buzz
                 THEN (IF b \in {1, 2} THEN FALSE
                       ELSE IF b = 4 THEN TRUE ELSE buzzing)
                 ELSE buzzing
        alarm == b = 4 /\ self.notify /\ ~self.triggered
        raised1 == alarm /\ ~okAlarm
        trig1 == IF alarm /\ okAlarm THEN TRUE ELSE self.triggered
        clear == ~raised1 /\ v < self.t2 /\ self.notify /\ trig1
        raised2 == clear /\ ~okClear
        trig2 == IF clear /\ okClear THEN FALSE ELSE trig1
    IN  [triggered |-> trig2,
         buzzing |-> buzz1,
         msgs |-> (IF alarm THEN <<[kind |-> "alarm", ok |-> okAlarm]>> ELSE <<>>)
                  \o (IF clear THEN <<[kind |-> "cleared", ok |-> okClear]>> ELSE <<>>),
         raised |-> raised1 \/ raised2]

test_threshold_stuck(self, v, buzzing, okAlarm, okClear) ==
    LET b == Branch(self, v)
        buzz1 == IF self.buzz
                 THEN (IF b \in {1, 2} THEN FALSE
                       ELSE IF b \in {3, 4} THEN TRUE ELSE buzzing)
                 ELSE buzzing
        alarm == b = 4 /\ self.notify /\ ~self.triggered
        raised1 == alarm /\ ~okAlarm
        trig1 == IF alarm /\ okAlarm THEN TRUE ELSE self.triggered
        clear == ~raised1 /\ v < self.t2 /\ self.notify /\ trig1
        raised2 == clear /\ ~okClear
        trig2 == trig1
    IN  [triggered |-> trig2,
         buzzing |-> buzz1,
         msgs |-> (IF alarm THEN <<[kind |-> "alarm", ok |-> okAlarm]>> ELSE <<>>)
                  \o (IF clear THEN <<[kind |-> "cleared", ok |-> okClear]>> ELSE <<>>),
         raised |-> raised1 \/ raised2]

test_threshold_flat(self, v, buzzing, okAlarm, okClear) ==
    LET b == Branch(self, v)
        buzz1 == IF self.buzz
                 THEN (IF b \in {1, 2} THEN FALSE
                       ELSE IF b \in {3, 4} THEN TRUE ELSE buzzing)
                 ELSE buzzing
        alarm == v >= self.t3 /\ self.notify /\ ~self.triggered
        raised1 == alarm /\ ~okAlarm
        trig1 == IF alarm /\ okAlarm THEN TRUE ELSE self.triggered
        clear == ~raised1 /\ v < self.t2 /\ self.notify /\ trig1
        raised2 == clear /\ ~okClear
        trig2 == IF clear /\ okClear THEN FALSE ELSE trig1
    IN  [triggered |-> trig2,
         buzzing |-> buzz1,
         msgs |-> (IF alarm THEN <<[kind |-> "alarm", ok |-> okAlarm]>> ELSE <<>>)
                  \o (IF clear THEN <<[kind |-> "cleared", ok |-> okClear]>> ELSE <<>>),
         raised |-> raised1 \/ raised2]

test_threshold(self, v, buzzing, okAlarm, okClear) ==
    LET b == Branch(self, v)
        buzz1 == IF self.buzz
                 THEN (IF b \in {1, 2} THEN FALSE
                       ELSE IF b \in {3, 4} THEN TRUE ELSE buzzing)
                 ELSE buzzing
        alarm == b = 4 /\ self.notify /\ ~self.triggered
        raised1 == alarm /\ ~okAlarm
        trig1 == IF alarm /\ okAlarm THEN TRUE ELSE self.triggered
        clear == ~raised1 /\ v < self.t2 /\ self.notify /\ trig1
        raised2 == clear /\ ~okClear
        trig2 == IF clear /\ okClear THEN FALSE ELSE trig1
    IN  [triggered |-> trig2,
         buzzing |-> buzz1,
         msgs |-> (IF alarm THEN <<[kind |-> "alarm", ok |-> okAlarm]>> ELSE <<>>)
                  \o (IF clear THEN <<[kind |-> "cleared", ok |-> okClear]>> ELSE <<>>),
         raised |-> raised1 \/ raised2]

\* ------------------------------------------------------------- the panel
\* A descriptor holds what update() reads of one sensor:
\*   trace, display, leds, log, repeat: sconfig's entries of these names;
\*   thr: Sensor.thresholds in tenths, <<>> when the sensor has none;
\*   base: Sensor.baseline[px];
\*   notifier: 'notify' in sconfig, so that __main__ made a Notifier;
\*   notify, buzz: sconfig's 'notify' and 'buzz' as given to the Notifier.
\* A reading is the list of the values of sconfig['funcs'], px first.
Sensors == DOMAIN cfg
Unbound == <<>>
NoTick == [s |-> 0, raised |-> FALSE, v |-> Unbound, pushed |-> FALSE,
           classified |-> FALSE, band |-> {}, tested |-> 0, exc |-> "none"]
NoCycle == [s |-> 0, ticks |-> 0, logged |-> FALSE, rec |-> Unbound,
            exc |-> "none"]
NoDisplay == [text |-> "running..", val |-> None, trace |-> None]

\* thresholds[i] * baseline[px]
Ts(d) == [i \in 1..Len(d.thr) |-> (d.thr[i] * d.base) \div 10]

\* The Notifier __main__ builds for a sensor (Notifier.__init__).
NotifierOf(d, trig) ==
    [t1 |-> Ts(d)[1], t2 |-> Ts(d)[2], t3 |-> Ts(d)[3],
     triggered |-> trig, notify |-> d.notify, buzz |-> d.buzz]

\* update(), the try block of one iteration and its except clause.
\* out.raises: evaluating sconfig['funcs'] raises; else out.v is the list.
ReadStep_uncaught(d, l, ld, out) ==
    IF out.raises
    THEN [v |-> <<None>>, l |-> l, leds |-> {"red"}, pushed |-> FALSE,
          exc |-> "read"]
    ELSE [v |-> out.v,
          l |-> IF d.trace THEN sense_fifo(PanelWidth, out.v[1], l) ELSE l,
          leds |-> ld,
          pushed |-> d.trace /\ out.v[1] # None,
          exc |-> "none"]

ReadStep_nored(d, l, ld, out) ==
    IF out.raises
    THEN [v |-> <<None>>, l |-> l, leds |-> ld, pushed |-> FALSE,
          exc |-> "none"]
    ELSE [v |-> out.v,
          l |-> IF d.trace THEN sense_fifo(PanelWidth, out.v[1], l) ELSE l,
          leds |-> ld,
          pushed |-> d.trace /\ out.v[1] # None,
          exc |-> "none"]

ReadStep(d, l, ld, out) ==
    IF out.raises
    THEN [v |-> <<None>>, l |-> l, leds |-> light(clear_all(ld), "red"),
          pushed |-> FALSE,
          exc |-> "none"]
    ELSE [v |-> out.v,
          l |-> IF d.trace THEN sense_fifo(PanelWidth, out.v[1], l) ELSE l,
          leds |-> ld,
          pushed |-> d.trace /\ out.v[1] # None,
          exc |-> "none"]

HasNone(t) == \E i \in 1..Len(t) : t[i] = None

\* update(), the rest of one iteration up to the sleep: the display, the
\* status lights and the Notifier.
ShowStep_stale(d, r, trig, buzz, disp, okAlarm, okClear) ==
    LET same == [leds |-> r.leds, lcd |-> disp, classified |-> FALSE,
                 band |-> {}, tested |-> 0, triggered |-> trig,
                 buzzing |-> buzz, exc |-> r.exc]
    IN
    IF r.exc # "none" THEN same
    ELSE IF "display" \in d.missing THEN [same EXCEPT !.exc = "KeyError"]
    ELSE IF ~d.display THEN same
    ELSE IF HasNone(r.v)
    THEN [same EXCEPT !.leds = light(clear_all(r.leds), "red")]
    ELSE IF "formats" \in d.missing THEN [same EXCEPT !.exc = "KeyError"]
    ELSE
        LET shown == [same EXCEPT !.lcd = [text |-> "value", val |-> r.v[1],
                                           trace |-> r.l]]
        IN
        IF d.thr = <<>> THEN shown
        ELSE
            LET band == light_threshold(r.v[1], Ts(d)[1], Ts(d)[2])
                lit == [shown EXCEPT
                          !.leds = IF d.leds THEN clear_all(r.leds) \cup band
                                   ELSE r.leds,
                                     !.classified = d.leds,
                                     !.band = IF d.leds THEN band ELSE {}]
                n == test_threshold(NotifierOf(d, trig), r.v[1], buzz,
                                    okAlarm, okClear)
            IN
            IF ~d.notifier THEN lit
            ELSE [lit EXCEPT !.tested = 1,
                             !.triggered = n.triggered,
                             !.buzzing = n.buzzing,
                             !.exc = IF n.raised THEN "send_message"
                                     ELSE "none"]

ShowStep(d, r, trig, buzz, disp, okAlarm, okClear) ==
    LET same == [leds |-> r.leds, lcd |-> disp, classified |-> FALSE,
                 band |-> {}, tested |-> 0, triggered |-> trig,
                 buzzing |-> buzz, exc |-> r.exc]
    IN
    IF r.exc # "none" THEN same
    ELSE IF "display" \in d.missing THEN [same EXCEPT !.exc = "KeyError"]
    ELSE IF ~d.display THEN same
    ELSE IF HasNone(r.v)
    THEN [same EXCEPT !.leds = light(clear_all(r.leds), "red"),
                      !.lcd = [text |-> "None", val |-> None, trace |-> None]]
    ELSE IF "formats" \in d.missing THEN [same EXCEPT !.exc = "KeyError"]
    ELSE
        LET shown == [same EXCEPT !.lcd = [text |-> "value", val |-> r.v[1],
                                           trace |-> r.l]]
        IN
        IF d.thr = <<>> THEN shown
        ELSE
            LET band == light_threshold(r.v[1], Ts(d)[1], Ts(d)[2])
                lit == [shown EXCEPT
                          !.leds = IF d.leds THEN clear_all(r.leds) \cup band
                                   ELSE r.leds,
                                     !.classified = d.leds,
                                     !.band = IF d.leds THEN band ELSE {}]
                n == test_threshold(NotifierOf(d, trig), r.v[1], buzz,
                                    okAlarm, okClear)
            IN
            IF ~d.notifier THEN lit
            ELSE [lit EXCEPT !.tested = 1,
                             !.triggered = n.triggered,
                             !.buzzing = n.buzzing,
                             !.exc = IF n.raised THEN "send_message"
                                     ELSE "none"]

\* update(), after the loop: the log record, if one is written.
LogStep_any(d, s, val) ==
    IF ~d.log THEN [logged |-> FALSE, rec |-> Unbound, exc |-> "none"]
    ELSE IF val = Unbound
    THEN [logged |-> FALSE, rec |-> Unbound, exc |-> "UnboundLocalError"]
    ELSE IF "formats" \in d.missing
    THEN [logged |-> FALSE, rec |-> Unbound, exc |-> "KeyError"]
    ELSE [logged |-> TRUE, rec |-> val, exc |-> "none"]

LogStep(d, s, val) ==
    IF ~d.log THEN [logged |-> FALSE, rec |-> Unbound, exc |-> "none"]
    ELSE IF val = Unbound
    THEN [logged |-> FALSE, rec |-> Unbound, exc |-> "UnboundLocalError"]
    ELSE IF HasNone(val) THEN [logged |-> FALSE, rec |-> Unbound, exc |-> "none"]
    ELSE IF "formats" \in d.missing
    THEN [logged |-> FALSE, rec |-> Unbound, exc |-> "KeyError"]
    ELSE [logged |-> TRUE, rec |-> val, exc |-> "none"]

\* ------------------------------------------------------- the lone Notifier
Thr == 1..MaxThr
NVals == 0..(MaxThr + 1)
NoCall == [v |-> None, pre |-> FALSE, buzz |-> FALSE, msgs |-> <<>>]

IdleNotifier ==
    /\ nt = [t1 |-> 1, t2 |-> 2, t3 |-> 3, triggered |-> FALSE,
             notify |-> FALSE, buzz |-> FALSE]
    /\ nbuzz = FALSE /\ nsent = <<>> /\ npc = "ready" /\ ncall = NoCall

NoPush == [called |-> FALSE, v |-> None, before |-> <<>>]

IdleFifo == fw = 1 /\ fifo = <<>> /\ pushed = <<>> /\ flast = NoPush

IdleClassify ==
    cl = [v |-> 0, w |-> 0, t1 |-> 0, t2 |-> 0, called |-> FALSE,
          leds |-> {}, leds2 |-> {}, pwm |-> {}, dht |-> {}]

IdlePanel ==
    /\ cfg = <<>> /\ pc = "off" /\ held = {} /\ idx = 1 /\ rep = 0 /\ passes = 0
    /\ traces = <<>> /\ triggered = <<>> /\ leds = {} /\ buzzer = FALSE
    /\ vcur = Unbound /\ lcd = NoDisplay /\ tk = NoTick /\ cyc = NoCycle
    /\ pushes = <<>> /\ hot = <<>> /\ iso = TRUE

NoAq == [n |-> 0, prev |-> 0, cur |-> 0, sent |-> "none", total |-> 0,
         calm |-> TRUE]

IdleAq ==
    /\ aq = [pc |-> "off", i |-> 0, trigger_level |-> 0, values |-> <<>>,
             leds |-> {}, buzzer |-> FALSE]
    /\ aqo = NoAq

InitNotifier ==
    /\ nt \in [t1 : Thr, t2 : Thr, t3 : Thr, triggered : {FALSE},
               notify : BOOLEAN, buzz : BOOLEAN]
    /\ nbuzz \in BOOLEAN
    /\ nsent = <<>>
    /\ npc = "ready"
    /\ ncall = NoCall
    /\ IdleFifo /\ IdleClassify /\ IdlePanel /\ IdleAq

\* One test_threshold(v) call; the buzzer the Notifier was given may sound
\* or not when the first call is made.  An exception of send_message leaves the call
\* and nothing in the repository catches it: no further call follows.
NotifierCall ==
    /\ npc = "ready"
    /\ Len(nsent) < MaxNotes
    /\ \E v \in NVals, okAlarm \in BOOLEAN, okClear \in BOOLEAN :
          LET r == test_threshold(nt, v, nbuzz, okAlarm, okClear)
          IN  /\ nt' = [nt EXCEPT !.triggered = r.triggered]
              /\ nbuzz' = r.buzzing
              /\ nsent' = nsent \o r.msgs
              /\ npc' = IF r.raised THEN "raised" ELSE "ready"
              /\ ncall' = [v |-> v, pre |-> nt.triggered, buzz |-> nbuzz,
                            msgs |-> r.msgs]
    /\ UNCHANGED <<fvars, cvars, pvars, avars>>

NextNotifier == NotifierCall

SpecNotifier == InitNotifier /\ [][NextNotifier]_vars

\* ------------------------------------------------------ the lone trace list
FVals == 0..MaxFVal

InitFifo ==
    /\ fw \in 1..MaxWidth
    /\ fifo = <<>>
    /\ pushed = <<>>
    /\ flast = NoPush
    /\ IdleNotifier /\ IdleClassify /\ IdlePanel /\ IdleAq

\* One l = sense_fifo(width, v, l), with a value or with None.
FifoPush ==
    /\ Len(pushed) < MaxPushes
    /\ \E v \in FVals \cup {None} :
          /\ fifo' = sense_fifo(fw, v, fifo)
          /\ pushed' = IF v = None THEN pushed ELSE Append(pushed, v)
          /\ flast' = [called |-> TRUE, v |-> v, before |-> fifo]
    /\ UNCHANGED <<fw, nvars, cvars, pvars, avars>>

NextFifo == FifoPush

SpecFifo == InitFifo /\ [][NextFifo]_vars

\* --------------------------------------------------- the threshold lights
CVals == 0..MaxCVal

InitClassify ==
    /\ cl \in [v : CVals, w : CVals, t1 : CVals, t2 : CVals,
               called : {FALSE},
               leds : {{}}, leds2 : {{}}, pwm : {{}}, dht : {{}}]
    /\ IdleNotifier /\ IdleFifo /\ IdlePanel /\ IdleAq

\* One call of each of the three threshold routines on dark lights, and a
\* second light_threshold call, for the value w, on dark lights.
ClassifyCall ==
    /\ ~cl.called
    /\ cl' = [cl EXCEPT !.called = TRUE,
                        !.leds = light_threshold(cl.v, cl.t1, cl.t2),
                        !.leds2 = light_threshold(cl.w, cl.t1, cl.t2),
                        !.pwm = light_threshold_pwm(cl.v, cl.t1, cl.t2),
                        !.dht = update_leds(cl.v, cl.t1, cl.t2)]
    /\ UNCHANGED <<nvars, fvars, pvars, avars>>

NextClassify == ClassifyCall

SpecClassify == InitClassify /\ [][NextClassify]_vars

\* ----------------------------------------------------- the panel, running
\* The descriptors the panel is configured from.  Besides the fields read
\* by update(), vals is the set of values the sensor's first function can
\* return, multi tells whether sconfig['funcs'] has a second function, and
\* missing is the set of keys the sensor's entry of the configuration file
\* lacks (the field of such a key is then not read).
\* DFull: three thresholds, a Notifier, lights, display and log; DQuiet: the
\* same without display; DTwo: two thresholds, no Notifier, shown for two
\* iterations; DLeds: two thresholds, shown once; DPlain: a traced sensor
\* without thresholds; DNote: a traced sensor with a Notifier.
DFull ==
    [trace |-> FALSE, display |-> TRUE, leds |-> TRUE, log |-> TRUE,
     repeat |-> 1, thr |-> <<12, 15, 20>>, base |-> 10,
     notifier |-> TRUE, notify |-> TRUE, buzz |-> TRUE,
     vals |-> {11, 15, 20}, multi |-> TRUE, missing |-> {}]
DQuiet == [DFull EXCEPT !.display = FALSE, !.log = FALSE]
DTwo ==
    [trace |-> TRUE, display |-> TRUE, leds |-> TRUE, log |-> TRUE,
     repeat |-> 2, thr |-> <<12, 15>>, base |-> 10,
     notifier |-> FALSE, notify |-> FALSE, buzz |-> FALSE,
     vals |-> {11, 15}, multi |-> FALSE, missing |-> {}]
DLeds == [DTwo EXCEPT !.repeat = 1, !.log = FALSE, !.vals = {11, 12, 15}]
DPlain ==
    [trace |-> TRUE, display |-> TRUE, leds |-> FALSE, log |-> FALSE,
     repeat |-> 1, thr |-> <<>>, base |-> 10,
     notifier |-> FALSE, notify |-> FALSE, buzz |-> FALSE,
     vals |-> {11}, multi |-> FALSE, missing |-> {}]
DNote == [DFull EXCEPT !.trace = TRUE, !.vals = {11, 20}, !.multi = FALSE]
Panels ==
    {<<DPlain, DLeds, DPlain>>,
     <<DPlain, DNote, DLeds>>,
     <<DFull, DPlain, DQuiet>>,
     <<DTwo, DFull, DPlain>>,
     <<DNote, DNote, DPlain>>}

\* What evaluating sconfig['funcs'] can do: raise, or return the list of
\* values, of which any may be None.  Without the key 'funcs' it raises
\* KeyError.
Outcomes(d) ==
    IF "funcs" \in d.missing THEN {[raises |-> TRUE, v |-> Unbound]}
    ELSE
    {[raises |-> TRUE, v |-> Unbound]}
    \cup {[raises |-> FALSE, v |-> <<p, 0>>] : p \in d.vals \cup {None}}
    \cup (IF d.multi
          THEN {[raises |-> FALSE, v |-> <<p, None>>] : p \in d.vals}
          ELSE {})

\* "raise": the read raised; "none": it gave None for v[px]; "value": it
\* gave a value for v[px].
Kind(out) ==
    IF out.raises THEN "raise" ELSE IF out.v[1] = None THEN "none" ELSE "value"

\* The state when main() enters its while loop: StatusLeds.__init__ has lit
\* green, lcd shows 'running..', every trace is empty, no Notifier triggered.
Init ==
    /\ cfg \in Panels
    /\ pc = "run"
    /\ held = {"lcd", "leds", "buzzer", "log"}
    /\ idx = 1 /\ rep = 0 /\ passes = 0
    /\ traces = [s \in Sensors |-> <<>>]
    /\ triggered = [s \in Sensors |-> FALSE]
    /\ leds = {"green"}
    /\ buzzer = FALSE
    /\ vcur = Unbound
    /\ lcd = NoDisplay
    /\ tk = NoTick /\ cyc = NoCycle
    /\ pushes = [s \in Sensors |-> 0]
    /\ hot = [s \in Sensors |-> FALSE]
    /\ iso = TRUE
    /\ IdleNotifier /\ IdleFifo /\ IdleClassify /\ IdleAq

\* One iteration of update()'s for loop for the sensor main() is at,
\* through to the sleep.  An exception that leaves update() leaves main()
\* too: __main__ catches KeyboardInterrupt only.
Tick_shared ==
    /\ pc = "run"
    /\ passes < MaxPasses
    /\ "repeat" \notin cfg[idx].missing
    /\ rep < cfg[idx].repeat
    /\ \E out \in Outcomes(cfg[idx]), okAlarm \in BOOLEAN, okClear \in BOOLEAN :
          LET d == cfg[idx]
              r == ReadStep(d, traces[idx], leds, out)
              w == ShowStep(d, r, triggered[idx], buzzer, lcd,
                            okAlarm, okClear)
          IN  /\ vcur' = r.v
              /\ traces' = [s \in Sensors |-> r.l]
              /\ pushes' = [pushes EXCEPT
                              ![idx] = IF r.pushed THEN @ + 1 ELSE @]
              /\ iso' = (iso /\ Kind(out) = IF idx = 1 THEN "raise" ELSE "value")
              /\ leds' = w.leds
              /\ lcd' = w.lcd
              /\ triggered' = [triggered EXCEPT ![idx] = w.triggered]
              /\ buzzer' = w.buzzing
              /\ hot' = [hot EXCEPT ![idx] = IF w.tested = 1
                                             THEN r.v[1] >= Ts(d)[2] ELSE @]
              /\ tk' = [s |-> idx, raised |-> out.raises, v |-> r.v,
                        pushed |-> r.pushed, classified |-> w.classified,
                        band |-> w.band, tested |-> w.tested, exc |-> w.exc]
              /\ pc' = IF w.exc = "none" THEN "run" ELSE "crashed"
              /\ rep' = rep + 1
    /\ UNCHANGED <<cfg, held, idx, passes, cyc, nvars, fvars, cvars, avars>>

Tick ==
    /\ pc = "run"
    /\ passes < MaxPasses
    /\ "repeat" \notin cfg[idx].missing
    /\ rep < cfg[idx].repeat
    /\ \E out \in Outcomes(cfg[idx]), okAlarm \in BOOLEAN, okClear \in BOOLEAN :
          LET d == cfg[idx]
              r == ReadStep(d, traces[idx], leds, out)
              w == ShowStep(d, r, triggered[idx], buzzer, lcd,
                            okAlarm, okClear)
          IN  /\ vcur' = r.v
              /\ traces' = [traces EXCEPT ![idx] = r.l]
              /\ pushes' = [pushes EXCEPT
                              ![idx] = IF r.pushed THEN @ + 1 ELSE @]
              /\ iso' = (iso /\ Kind(out) = IF idx = 1 THEN "raise" ELSE "value")
              /\ leds' = w.leds
              /\ lcd' = w.lcd
              /\ triggered' = [triggered EXCEPT ![idx] = w.triggered]
              /\ buzzer' = w.buzzing
              /\ hot' = [hot EXCEPT ![idx] = IF w.tested = 1
                                             THEN r.v[1] >= Ts(d)[2] ELSE @]
              /\ tk' = [s |-> idx, raised |-> out.raises, v |-> r.v,
                        pushed |-> r.pushed, classified |-> w.classified,
                        band |-> w.band, tested |-> w.tested, exc |-> w.exc]
              /\ pc' = IF w.exc = "none" THEN "run" ELSE "crashed"
              /\ rep' = rep + 1
    /\ UNCHANGED <<cfg, held, idx, passes, cyc, nvars, fvars, cvars, avars>>

\* The end of an update() call: the log record, the return of the trace,
\* and main() moving on to the next sensor.
EndCycle ==
    /\ pc = "run"
    /\ "repeat" \notin cfg[idx].missing
    /\ rep = cfg[idx].repeat
    /\ LET g == LogStep(cfg[idx], idx, vcur)
       IN  /\ cyc' = [s |-> idx, ticks |-> rep, logged |-> g.logged,
                      rec |-> g.rec, exc |-> g.exc]
           /\ pc' = IF g.exc = "none" THEN "run" ELSE "crashed"
    /\ idx' = IF idx = Len(cfg) THEN 1 ELSE idx + 1
    /\ passes' = IF idx = Len(cfg) THEN passes + 1 ELSE passes
    /\ rep' = 0
    /\ vcur' = Unbound
    /\ UNCHANGED <<cfg, held, traces, triggered, leds, buzzer, lcd, tk,
                   pushes, hot, iso, nvars, fvars, cvars, avars>>

Next == Tick \/ EndCycle

Spec == Init /\ [][Next]_vars

\* --------------------------------------------- the panel, interrupted
\* The KeyboardInterrupt handler of __main__: leds.clear_all(),
\* lcd.destroy(), leds.destroy(), buzzer.destroy().  GPIO.cleanup() returns
\* the buzzer's pin to an input.  sl, the SensorLog, is not touched.  The
\* handler's effect does not depend on where in update() the interrupt
\* arrived.
Shutdown ==
    /\ pc = "run"
    /\ pc' = "stopped"
    /\ leds' = {}
    /\ buzzer' = FALSE
    /\ held' = held \ {"lcd", "leds", "buzzer"}
    /\ UNCHANGED <<cfg, idx, rep, passes, traces, triggered, vcur, lcd, tk,
                   cyc, pushes, hot, iso, nvars, fvars, cvars, avars>>

NextInterrupt == Tick \/ EndCycle \/ Shutdown

SpecInterrupt == Init /\ [][NextInterrupt]_vars

\* ------------------------------------------- the panel, from its start
\* Configurations as they can be written in the two json files: entries
\* that lack a key update() reads, and sensors whose thresholds are not
\* increasing or too few for a Notifier, and entries with 'repeat' 0.
DNoRepeat == [DPlain EXCEPT !.missing = {"repeat"}]
DNoDisplay == [DPlain EXCEPT !.missing = {"display"}]
DNoFuncs == [DLeds EXCEPT !.missing = {"funcs"}]
DNoFormats == [DTwo EXCEPT !.missing = {"formats"}]
DBad == [DLeds EXCEPT !.thr = <<15, 12>>]
DBadNote == [DNote EXCEPT !.thr = <<20, 15, 12>>]
DShort == [DLeds EXCEPT !.notifier = TRUE, !.notify = TRUE]
DZero == [DPlain EXCEPT !.repeat = 0]
DZeroLog == [DPlain EXCEPT !.repeat = 0, !.log = TRUE]
StartPanels ==
    {<<DPlain, DLeds>>,
     <<DPlain, DNoRepeat>>,
     <<DPlain, DNoDisplay>>,
     <<DNoFuncs, DPlain>>,
     <<DNoFormats, DPlain>>,
     <<DPlain, DBad>>,
     <<DBadNote, DPlain>>,
     <<DPlain, DShort>>,
     <<DPlain, DZero>>,
     <<DPlain, DZeroLog>>}

\* The state when __main__ enters its try block: the buzzer, the lights,
\* the display and the SensorLog have been created.
InitStartup ==
    /\ cfg \in StartPanels
    /\ pc = "start"
    /\ held = {"lcd", "leds", "buzzer", "log"}
    /\ idx = 1 /\ rep = 0 /\ passes = 0
    /\ traces = [s \in Sensors |-> <<>>]
    /\ triggered = [s \in Sensors |-> FALSE]
    /\ leds = {"green"}
    /\ buzzer = FALSE
    /\ vcur = Unbound
    /\ lcd = [NoDisplay EXCEPT !.text = "initializing.. "]
    /\ tk = NoTick /\ cyc = NoCycle
    /\ pushes = [s \in Sensors |-> 0]
    /\ hot = [s \in Sensors |-> FALSE]
    /\ iso = TRUE
    /\ IdleNotifier /\ IdleFifo /\ IdleClassify /\ IdleAq

\* __main__'s try block up to the call of main(): the configuration is
\* loaded, and a Sensor and, with 'notify', a Notifier are built per entry.
\* infoOk: the sensor info file parses; if not, the JSONDecodeError is
\* logged and the process exits.  Notifier.__init__ indexes three
\* thresholds: with fewer its exception leaves __main__.  Nothing else is
\* looked at.
Startup ==
    /\ pc = "start"
    /\ \E infoOk \in BOOLEAN :
          pc' = IF ~infoOk THEN "exited"
                ELSE IF \E s \in Sensors :
                            cfg[s].notifier /\ Len(cfg[s].thr) < 3
                THEN "failed"
                ELSE "run"
    /\ lcd' = NoDisplay
    /\ UNCHANGED <<cfg, held, idx, rep, passes, traces, triggered, leds,
                   buzzer, vcur, tk, cyc, pushes, hot, iso, nvars, fvars,
                   cvars, avars>>

\* update() entered for an entry without 'repeat': range(sconfig['repeat'])
\* raises KeyError before the first iteration.
EnterFails ==
    /\ pc = "run"
    /\ passes < MaxPasses
    /\ rep = 0
    /\ "repeat" \in cfg[idx].missing
    /\ pc' = "crashed"
    /\ tk' = [NoTick EXCEPT !.s = idx, !.exc = "KeyError"]
    /\ UNCHANGED <<cfg, held, idx, rep, passes, traces, triggered, leds,
                   buzzer, vcur, lcd, cyc, pushes, hot, iso, nvars, fvars,
                   cvars, avars>>

NextStartup == Startup \/ Tick \/ EndCycle \/ EnterFails

SpecStartup == InitStartup /\ [][NextStartup]_vars

\* ------------------------------------------------ the aq_hat alert loop
warn_factor == 3
alert_factor == 4
alarm_factor == 6

\* The branch of the loop's if/elif chain a voltage takes: 4 alarm,
\* 3 alert, 2 warn, 1 the else branch.
Level(v) ==
    IF v > alarm_factor THEN 4
    ELSE IF v > alert_factor THEN 3
    ELSE IF v > warn_factor THEN 2
    ELSE 1

Title(lvl) ==
    IF lvl = 4 THEN "alarm"
    ELSE IF lvl = 3 THEN "alert"
    ELSE IF lvl = 2 THEN "warn"
    ELSE "ok"

\* leds.clear() as aq_hat.py calls it, without a colour.  StatusLeds in
\* ultrametrics_rpi.py has clear_all() and no clear(): the call is taken
\* to turn every light off, as clear_all() does.
leds_clear(ls) == {}

\* One iteration of the while loop for the voltage v; ok: send_message
\* returns, else it raises, and only KeyboardInterrupt is caught.  sent is
\* the title of the notification the iteration sends, "none" without one.
aq_step(a, v, ok) ==
    LET lvl == Level(v)
        vals == Append(IF Len(a.values) > AqWidth THEN Tail(a.values)
                       ELSE a.values, v)
        sends == a.trigger_level # lvl
        sent == IF sends THEN Title(lvl) ELSE "none"
        dark == leds_clear(a.leds)
    IN  IF sends /\ ~ok
        THEN [a |-> [a EXCEPT !.values = vals, !.leds = dark,
                              !.pc = "crashed"],
              sent |-> sent]
        ELSE [a |-> [a EXCEPT
                       !.values = vals,
                       !.leds = IF lvl \in {3, 4} THEN light(dark, "red")
                                ELSE IF lvl = 2 THEN light(dark, "yellow")
                                ELSE IF a.i % 10 = 0 THEN light(dark, "green")
                                ELSE dark,
                       !.buzzer = (lvl = 4),
                       !.trigger_level = lvl],
              sent |-> sent]

AqVolts == 0..MaxAqV

\* The state in which aq_hat enters its while loop, once the set-up
\* before it has run with the lights, sensor and file classes it calls:
\* green is lit, the buzzer is stopped, values = [], i = 1 (incremented
\* once, before the loop) and trigger_level = 0.
InitAq ==
    /\ aq = [pc |-> "run", i |-> 1, trigger_level |-> 0, values |-> <<>>,
             leds |-> {"green"}, buzzer |-> FALSE]
    /\ aqo = NoAq
    /\ IdleNotifier /\ IdleFifo /\ IdleClassify /\ IdlePanel

AqStep ==
    /\ aq.pc = "run"
    /\ aqo.n < MaxAqSteps
    /\ \E v \in AqVolts, ok \in BOOLEAN :
          LET r == aq_step(aq, v, ok)
          IN  /\ aq' = r.a
              /\ aqo' = [n |-> aqo.n + 1, prev |-> aqo.cur, cur |-> Level(v),
                         sent |-> r.sent,
                         total |-> aqo.total + IF r.sent = "none" THEN 0 ELSE 1,
                         calm |-> aqo.calm /\ Level(v) = 1]
    /\ UNCHANGED <<nvars, fvars, cvars, pvars>>

\* aq_hat's KeyboardInterrupt handler: leds.clear(), lcd.destroy().
AqInterrupt ==
    /\ aq.pc = "run"
    /\ aq' = [aq EXCEPT !.pc = "stopped", !.leds = leds_clear(aq.leds)]
    /\ UNCHANGED <<aqo, nvars, fvars, cvars, pvars>>

NextAq == AqStep \/ AqInterrupt

SpecAq == InitAq /\ [][NextAq]_vars

\* ================================================================ claims
Increasing(n) == n.t1 < n.t2 /\ n.t2 < n.t3
Kinds(msgs, k) == {i \in 1..Len(msgs) : msgs[i].kind = k}

\* C1: with t1 < t2 < t3 and notification enabled, an alarm notification is
\* sent only by a call with v >= t3 made while triggered is false, a call
\* with v >= t3 made while triggered is true sends nothing, and between any
\* two alarm notifications of the Notifier there is a 'cleared' one.
C1_SingleAlarm ==
    (Increasing(nt) /\ nt.notify) =>
        /\ Kinds(ncall.msgs, "alarm") # {} => (ncall.v >= nt.t3 /\ ~ncall.pre)
        /\ (ncall.pre /\ ncall.v >= nt.t3) => ncall.msgs = <<>>
        /\ \A i \in Kinds(nsent, "alarm") : \A j \in Kinds(nsent, "alarm") :
              i < j => \E k \in Kinds(nsent, "cleared") : i < k /\ k < j

\* C1 witness: an alarm, its clearing and the alarm of the next excursion
\* were sent, and the last call (v >= t3, triggered) was suppressed.
C1_Witness ==
    /\ Increasing(nt) /\ nt.notify
    /\ Len(nsent) = 3
    /\ nsent[1].kind = "alarm" /\ nsent[2].kind = "cleared"
    /\ nsent[3].kind = "alarm"
    /\ ncall.pre /\ ncall.v >= nt.t3 /\ ncall.msgs = <<>>

\* C2 (as claimed): with t1 < t2 < t3 and notification enabled, a call with
\* v < t2 made while triggered is true sends exactly one 'cleared'
\* notification and leaves triggered false; a call made while triggered is
\* false sends no 'cleared' notification.
C2_ClearedOnce ==
    (Increasing(nt) /\ nt.notify /\ ncall.v # None) =>
        /\ (ncall.pre /\ ncall.v < nt.t2) =>
              /\ Cardinality(Kinds(ncall.msgs, "cleared")) = 1
              /\ ~nt.triggered
        /\ ~ncall.pre => Kinds(ncall.msgs, "cleared") = {}

\* C3 (as claimed): when the alarm notification of a call with v >= t3 and
\* triggered false cannot be delivered, triggered is set to true all the same.
C3_FailedAlarmLatches ==
    (Increasing(nt) /\ nt.notify /\ ~ncall.pre
        /\ \E i \in Kinds(ncall.msgs, "alarm") : ~ncall.msgs[i].ok)
    => nt.triggered

\* C5 (as claimed): the trace list never holds more than width values.
C5_FifoBound == Len(fifo) <= fw

LastN(s, n) == IF Len(s) <= n THEN s ELSE SubSeq(s, Len(s) - n + 1, Len(s))

\* C6 (as claimed): the trace list is the last width values pushed, in
\* push order.
C6_FifoLastWidth == fifo = LastN(pushed, fw)

\* C9: for t1 <= t2 each threshold routine lights exactly one light: green
\* iff v < t1, yellow iff t1 <= v < t2, red iff v >= t2.
Band(v, t1, t2) ==
    IF v < t1 THEN "green" ELSE IF v < t2 THEN "yellow" ELSE "red"

C9_Classifier ==
    (cl.called /\ cl.t1 <= cl.t2) =>
        \A o \in {cl.leds, cl.pwm, cl.dht} :
            /\ Cardinality(o) = 1
            /\ ("green" \in o <=> cl.v < cl.t1)
            /\ ("yellow" \in o <=> (cl.t1 <= cl.v /\ cl.v < cl.t2))
            /\ ("red" \in o <=> cl.v >= cl.t2)

\* C9 witness: a value equal to the lower threshold lit yellow, not green.
C9_Witness ==
    /\ cl.called /\ cl.t1 < cl.t2 /\ cl.v = cl.t1
    /\ cl.leds = {"yellow"}

\* C4 (as claimed): when send_message raises inside test_threshold during
\* an update cycle, the panel loop does not stop.
C4_LoopSurvivesSendError == tk.exc = "send_message" => pc = "run"

\* C7: in a panel of traced sensors with repeat 1 whose first sensor's read
\* has raised on every tick and whose other sensors' reads have all given a
\* value, and where no notification delivery has failed, the panel loop is
\* running, the first sensor's trace has had no value pushed, and after N
\* complete passes each other sensor has had N values pushed.
IsoScenario ==
    /\ \A s \in Sensors : cfg[s].trace /\ cfg[s].repeat = 1
    /\ iso
    /\ tk.exc # "send_message"

C8_AlwaysClassified ==
    (tk.s # 0 /\ ~tk.raised /\ tk.v[1] # None /\ cfg[tk.s].thr # <<>>) =>
        /\ tk.classified
        /\ cfg[tk.s].notifier => tk.tested = 1

\* C10 (as claimed): for a sensor with thresholds, after each tick with a
\* successful reading the lights show exactly the band of that tick's v[px]
\* against t1 = baseline * thresholds[0] and t2 = baseline * thresholds[1].
C10_LightsShowBand ==
    (tk.s # 0 /\ ~tk.raised /\ tk.v[1] # None /\ cfg[tk.s].thr # <<>>) =>
        leds = {Band(tk.v[1], Ts(cfg[tk.s])[1], Ts(cfg[tk.s])[2])}

\* C13: on a tick whose read raises, update() sets the reading to [None],
\* lights red, pushes nothing into the trace, neither classifies nor calls
\* test_threshold, and no exception leaves update(): the loop goes on.
C13_ReadRaises ==
    (tk.s # 0 /\ tk.raised) =>
        /\ tk.v = <<None>>
        /\ leds = {"red"}
        /\ ~tk.pushed
        /\ ~tk.classified
        /\ tk.tested = 0
        /\ tk.exc = "none"
        /\ pc = "run"

\* The read of a sensor with thresholds, lights and a Notifier raised, and
\* the loop has moved on to the next sensor.
C13_Witness ==
    /\ tk.s # 0 /\ tk.raised
    /\ cfg[tk.s].leds /\ cfg[tk.s].notifier
    /\ pc = "run" /\ cyc.s = tk.s /\ idx # tk.s

\* C14 (as claimed): on a tick whose read returns None for v[px] without
\* raising, the lights are red, nothing is pushed, test_threshold is not
\* called and the update() call that ends with this tick writes no log
\* record, whether the sensor is displayed or not.
C14_NoneReading ==
    (tk.s # 0 /\ ~tk.raised /\ tk.v[1] = None) =>
        /\ leds = {"red"}
        /\ ~tk.pushed
        /\ tk.tested = 0
        /\ (cyc.s = tk.s => ~cyc.logged)

\* C16: an update() call writes at most one log record, after its
\* sconfig['repeat'] iterations: one record, the tuple of the last
\* iteration's values, when 'log' is set and that tuple holds no None, and
\* no record otherwise.
C16_OneRecord ==
    (cyc.s # 0 /\ tk.s = cyc.s) =>
        /\ cyc.ticks = cfg[cyc.s].repeat
        /\ cyc.logged <=> (cfg[cyc.s].log /\ ~HasNone(tk.v))
        /\ cyc.logged => cyc.rec = tk.v

\* A two-iteration update() read 11 and then 15 and logged the 15 only.
C16_Witness ==
    /\ cyc.s # 0 /\ tk.s = cyc.s
    /\ cyc.ticks = 2 /\ cyc.logged
    /\ cyc.rec = <<15, 0>>
    /\ traces[cyc.s] = <<11, 15>>

\* C20: on a tick of a displayed sensor whose read raised or gave a None,
\* the display gets the error text, with no value and no trace.
C20_ErrorText ==
    (tk.s # 0 /\ cfg[tk.s].display /\ (tk.raised \/ HasNone(tk.v))) =>
        lcd = [text |-> "None", val |-> None, trace |-> None]

\* The read of a displayed sensor that has a trace raised.
C20_Witness ==
    /\ tk.s # 0 /\ cfg[tk.s].display /\ tk.raised
    /\ traces[tk.s] # <<>>
    /\ lcd.text = "None" /\ lcd.trace = None

\* C18: sense_fifo called with None leaves the list as it was, and the list
\* never holds a None.
C18_NoneNotPushed ==
    /\ \A i \in 1..Len(fifo) : fifo[i] # None
    /\ (flast.called /\ flast.v = None) => fifo = flast.before

\* sense_fifo was called with None on a list that holds a value.
C18_Witness ==
    /\ flast.called /\ flast.v = None
    /\ Len(flast.before) > 0
    /\ fifo = flast.before

Rank(ls) ==
    IF ls = {"green"} THEN 1
    ELSE IF ls = {"yellow"} THEN 2
    ELSE IF ls = {"red"} THEN 3
    ELSE 0

\* C19: for t1 <= t2 and v < w, light_threshold lights for v a colour that
\* is not above the colour it lights for w, in the order green < yellow <
\* red.
C19_Monotone ==
    (cl.called /\ cl.t1 <= cl.t2 /\ cl.v < cl.w) =>
        /\ Rank(cl.leds) >= 1
        /\ Rank(cl.leds) <= Rank(cl.leds2)

\* Two values in different bands: the lower in Warning, the higher in
\* Critical.
C19_Witness ==
    /\ cl.called /\ cl.t1 < cl.t2 /\ cl.v < cl.w
    /\ cl.leds = {"yellow"} /\ cl.leds2 = {"red"}

\* C15 (as claimed): once the KeyboardInterrupt handler has run, no status
\* light is lit and the display, the buzzer and the log file have been
\* released.
C15_ShutdownReleases ==
    pc = "stopped" =>
        /\ leds = {}
        /\ held \cap {"lcd", "buzzer", "log"} = {}

NotIncreasing(t) == \E i \in 1..(Len(t) - 1) : t[i] >= t[i + 1]

\* C11 (as claimed): a configuration with a sensor whose thresholds are not
\* strictly increasing never gets past the start: main() is not entered and
\* no iteration of update() runs.
C11_BadThresholdsRejected ==
    (pc # "off" /\ \E s \in Sensors : NotIncreasing(cfg[s].thr)) =>
        /\ pc \in {"start", "exited", "failed"}
        /\ tk = NoTick

\* C12 (as claimed): a configuration with an entry that lacks 'repeat',
\* 'display', 'funcs' or 'formats' ends at the start, before any iteration
\* of update(), and never ends main() with an exception.
C12_MissingFieldRejected ==
    (pc # "off" /\ \E s \in Sensors : cfg[s].missing # {}) =>
        /\ pc \in {"start", "exited", "failed"}
        /\ tk.s = 0
        /\ pc # "crashed"

\* C17 (as claimed): main() gives the sensors their update() calls in the
\* order of the configuration, each of sconfig['repeat'] iterations, the
\* first again after the last, and never stops doing so: every sensor gets
\* a further update() call, again and again.
C17_RoundRobin ==
    /\ rep <= cfg[idx].repeat
    /\ cyc.s = 0 => idx = 1
    /\ cyc.s # 0 => /\ idx = (cyc.s % Len(cfg)) + 1
                    /\ cyc.ticks = cfg[cyc.s].repeat
    /\ tk.s # 0 /\ rep > 0 => tk.s = idx
    /\ pc # "crashed"

\* C21: a test_threshold(v) call with t2 <= v < t3 sends no notification
\* and leaves triggered as it was, true or false; with increasing
\* thresholds and 'buzz' it starts the buzzer.
C21_PreAlarm ==
    (ncall.v # None /\ nt.t2 <= ncall.v /\ ncall.v < nt.t3) =>
        /\ ncall.msgs = <<>>
        /\ nt.triggered = ncall.pre
        /\ npc = "ready"
        /\ (Increasing(nt) /\ nt.buzz) => nbuzz

\* A call with t2 <= v < t3 was made while triggered was true.
C21_Witness ==
    /\ ncall.v # None /\ nt.t2 <= ncall.v /\ ncall.v < nt.t3
    /\ ncall.pre /\ nt.triggered /\ nt.notify
    /\ ncall.msgs = <<>>

\* C22: with t1 < t2 < t3 and 'buzz', after a test_threshold(v) call the
\* buzzer sounds iff v >= t2; without 'buzz' the call leaves the buzzer as
\* it was.
C22_BuzzerFollowsBand ==
    ncall.v # None =>
        /\ (Increasing(nt) /\ nt.buzz) => (nbuzz <=> ncall.v >= nt.t2)
        /\ ~nt.buzz => nbuzz = ncall.buzz

\* A call with v < t2 stopped a sounding buzzer.
C22_Witness ==
    /\ ncall.v # None /\ Increasing(nt) /\ nt.buzz
    /\ ncall.buzz /\ ncall.v < nt.t2 /\ ~nbuzz

AllSent(msgs) == \A i \in 1..Len(msgs) : msgs[i].ok

\* C25: with t1 < t2 < t3 and every send_message having returned, triggered
\* is true only if the last tested value is at or above t2, and the alarm
\* notifications sent exceed the 'cleared' ones by one when triggered is
\* true and equal them when it is false.
C25_TriggeredCount ==
    (Increasing(nt) /\ AllSent(nsent)) =>
        /\ nt.triggered => (ncall.v # None /\ ncall.v >= nt.t2)
        /\ Cardinality(Kinds(nsent, "alarm"))
             = Cardinality(Kinds(nsent, "cleared"))
               + (IF nt.triggered THEN 1 ELSE 0)

\* Two excursions were alarmed and cleared, the second by the last call.
C25_Witness ==
    /\ Increasing(nt) /\ AllSent(nsent)
    /\ Cardinality(Kinds(nsent, "alarm")) = 2
    /\ Cardinality(Kinds(nsent, "cleared")) = 2
    /\ ~nt.triggered /\ ncall.pre /\ ncall.v < nt.t2

\* C26: a test_threshold(v) call sends at most one notification, whatever
\* v, t1, t2 and t3 are, increasing or not.
C26_OneMessagePerCall == Len(ncall.msgs) <= 1

\* With t3 below t2, a call with t3 <= v < t2 was made while triggered was
\* true, and sent the 'cleared' notification only.
C26_Witness ==
    /\ nt.t3 < nt.t2 /\ ncall.v # None
    /\ nt.t3 <= ncall.v /\ ncall.v < nt.t2
    /\ ncall.pre /\ Len(ncall.msgs) = 1

\* C23: a step of the update() call of one sensor leaves the trace and the
\* triggered flag of every other sensor as they were, and main()'s move to
\* the next sensor leaves all traces and all triggered flags as they were,
\* so that a sensor finds at its next update() call what its last one left.
C23_Frame ==
    [][/\ \A s \in Sensors \ {idx} :
            traces'[s] = traces[s] /\ triggered'[s] = triggered[s]
       /\ idx' # idx => (traces' = traces /\ triggered' = triggered)]_vars

\* In the second pass the second sensor is about to be updated: its trace
\* holds what the first pass pushed, and the first sensor's Notifier is
\* triggered while its own is not.
C23_Witness ==
    /\ pc = "run" /\ passes = 1 /\ idx = 2 /\ rep = 0
    /\ traces[2] # <<>>
    /\ cfg[1].notifier /\ cfg[2].notifier
    /\ triggered[1] /\ ~triggered[2]

BuzzSensors == {s \in Sensors : cfg[s].notifier /\ cfg[s].buzz}

\* C24 (as claimed): in a panel with two or more sensors whose Notifiers
\* sound the one buzzer, when an update() call has ended the buzzer sounds
\* if the last value tested for any of them was at or above its t2.
C24_SharedBuzzer ==
    (pc = "run" /\ rep = 0 /\ Cardinality(BuzzSensors) >= 2
        /\ \E s \in BuzzSensors : hot[s])
    => buzzer

\* C27 (as claimed): an update() call for a sensor with 'repeat' 0 does no
\* iteration, writes no log record and ends without an exception, with
\* 'log' set or not.
C27_RepeatZero ==
    (cyc.s # 0 /\ cfg[cyc.s].repeat = 0) =>
        /\ cyc.ticks = 0
        /\ ~cyc.logged
        /\ cyc.exc = "none"

\* C28 (as claimed): after an iteration whose read gave values without a
\* None, red is lit only if the sensor has thresholds and v[px] >= t2.
C28_RedOnlyCritical ==
    (tk.s # 0 /\ ~tk.raised /\ ~HasNone(tk.v) /\ "red" \in leds) =>
        /\ cfg[tk.s].thr # <<>>
        /\ tk.v[1] >= Ts(cfg[tk.s])[2]

\* C29: in the panel at most one status light is lit.
C29_OneLight == pc # "off" => Cardinality(leds) <= 1

\* The first sensor's read raised (red), then the second sensor's value was
\* classified and yellow alone is lit.
C29_Witness ==
    /\ pc = "run" /\ iso /\ passes = 0
    /\ tk.s = 2 /\ tk.classified
    /\ leds = {"yellow"}

\* C30 (as claimed): the aq_hat loop sends 'levels cleared' only for a
\* reading at normal level that follows a reading at warn, alert or alarm
\* level, and sends nothing while all readings so far were at normal level.
C30_ClearedAfterExcursion ==
    /\ aqo.sent = "ok" => (aqo.cur = 1 /\ aqo.prev \in {2, 3, 4})
    /\ aqo.calm => aqo.total = 0

====
